---- MODULE Spec2Model ----
(***************************************************************************)
(* A model of the seafoodtruck-slack bot: the mention parser, the respond  *)
(* dispatch, the find flows (postEvents and findTrucks) and the Seattle    *)
(* Food Truck API clients, in the four revisions of the bot and the two    *)
(* revisions of the client that the repository holds.                      *)
(*                                                                         *)
(* Revisions of the bot (variable rev):                                    *)
(*   "events"   find events for <day>            src/unnamed/part_002      *)
(*   "at"       find trucks at <loc> <day>       src/app.go 1-288          *)
(*   "atin"     find trucks at <loc> in <hood>   src/unnamed/part_001      *)
(*   "helpOnly" help only                        src/app.go 289-451        *)
(* Strings are sequences of one-character strings, so that the byte        *)
(* slicing of the Go code is modelled position by position.                *)
(***************************************************************************)
EXTENDS Integers, Sequences, FiniteSets, TLC

\* ------------------------------------------------------------- bounds
MaxEvents == 2
MaxBookings == 2
\* The most location ids in one call of FindTrucks, and the most locations in
\* one answer of the locations API.
MaxAsked == 2
MaxAnswered == 3
\* The most food categories of one booking.
MaxCategories == 3

\* ------------------------------------------------------------ strings
SP == " "

s_help == <<"h","e","l","p">>
s_find == <<"f","i","n","d">>
s_trucks == <<"t","r","u","c","k","s">>
s_events == <<"e","v","e","n","t","s">>
s_for == <<"f","o","r">>
s_at == <<"a","t">>
s_in == <<"i","n">>
s_today == <<"t","o","d","a","y">>
s_tomorrow == <<"t","o","m","o","r","r","o","w">>
s_Tomorrow == <<"T","o","m","o","r","r","o","w">>
s_friday == <<"f","r","i","d","a","y">>
s_hello == <<"h","e","l","l","o">>
s_Help == <<"H","e","l","p">>
s_slu == <<"s","l","u">>
s_SLU == <<"S","L","U">>
s_dt == <<"d","t">>
s_bot == <<"<","@","B",">">>
s_123 == <<"1","2","3">>
s_456 == <<"4","5","6">>
s_comma == <<",">>
s_sp == <<" ">>
s_empty == <<>>

\* Words joined by single spaces.
RECURSIVE Words(_)
Words(ws) ==
  IF Len(ws) = 0 THEN <<>>
  ELSE IF Len(ws) = 1 THEN ws[1]
  ELSE ws[1] \o s_sp \o Words(Tail(ws))

helpCmd == s_help
findEventsCmd == Words(<<s_find, s_events>>)
findTrucksCmd == Words(<<s_find, s_trucks>>)
today == s_today
tomorrow == s_tomorrow

UpperChars == <<"A","B","C","D","E","F","G","H","I","J","K","L","M",
                "N","O","P","Q","R","S","T","U","V","W","X","Y","Z">>
LowerChars == <<"a","b","c","d","e","f","g","h","i","j","k","l","m",
                "n","o","p","q","r","s","t","u","v","w","x","y","z">>

\* strings.ToLower on the ASCII range.
LowerChar(c) ==
  IF \E n \in 1..26 : UpperChars[n] = c
  THEN LowerChars[CHOOSE n \in 1..26 : UpperChars[n] = c]
  ELSE c

ToLower(s) == [n \in 1..Len(s) |-> LowerChar(s[n])]

IsSpace(c) == c \in {" ", "\t", "\n", "\r"}

\* strings.TrimSpace: the longest slice with no leading or trailing white space.
TrimSpace(s) ==
  LET keep == {n \in 1..Len(s) : ~IsSpace(s[n])}
  IN  IF keep = {} THEN <<>>
      ELSE LET lo == CHOOSE n \in keep : \A m \in keep : n <= m
               hi == CHOOSE n \in keep : \A m \in keep : n >= m
           IN  SubSeq(s, lo, hi)

\* Whether sub occurs in s at the 0-based offset n.
MatchAt(s, sub, n) ==
  /\ n >= 0
  /\ n + Len(sub) <= Len(s)
  /\ \A k \in 1..Len(sub) : s[n + k] = sub[k]

\* strings.Index: 0-based offset of the first occurrence, -1 when there is none.
Index(s, sub) ==
  LET hits == {n \in 0..Len(s) : MatchAt(s, sub, n)}
  IN  IF hits = {} THEN -1
      ELSE CHOOSE n \in hits : \A m \in hits : n <= m

Contains(s, sub) == Index(s, sub) >= 0

\* Whether the Go slice expression s[a:b] is in range (it panics otherwise).
SliceOK(s, a, b) == 0 <= a /\ a <= b /\ b <= Len(s)

\* The Go slice expression s[a:b], 0-based, b exclusive.
Slice(s, a, b) == SubSeq(s, a + 1, b)

\* strings.Split with a non-empty separator: Split("", ",") is [""].
RECURSIVE Split(_, _)
Split(s, sep) ==
  LET n == Index(s, sep)
  IN  IF n < 0 THEN <<s>>
      ELSE <<Slice(s, 0, n)>> \o Split(Slice(s, n + Len(sep), Len(s)), sep)

\* ------------------------------------------------------------ parsers
\* The result of a parser: its return values, or a slice-bounds panic.
\* A variant of the find-events parser without the test of the length.
parseTokensFromMsgFor_noLengthTest(msg) ==
  LET l == Len(msg)
      i == Index(msg, s_sp \o s_for)
      cmd == IF i > 0 THEN TrimSpace(ToLower(Slice(msg, 0, i))) ELSE <<>>
  IN  IF ~SliceOK(msg, i + 4, l)
      THEN [panic |-> TRUE, err |-> FALSE, cmd |-> <<>>, day |-> <<>>]
      ELSE [panic |-> FALSE, err |-> FALSE, cmd |-> cmd,
            day |-> TrimSpace(Slice(msg, i + 4, l))]

\* parseTokensFromMsg of the find-events revision (connective " for").
parseTokensFromMsgFor(msg) ==
  LET l == Len(msg)
      i == Index(msg, s_sp \o s_for)
      cmd == IF i > 0 THEN TrimSpace(ToLower(Slice(msg, 0, i))) ELSE <<>>
  IN  IF l = 0
      THEN [panic |-> FALSE, err |-> TRUE, cmd |-> <<>>, day |-> <<>>]
      ELSE IF ~SliceOK(msg, i + 4, l)
      THEN [panic |-> TRUE, err |-> FALSE, cmd |-> <<>>, day |-> <<>>]
      ELSE [panic |-> FALSE, err |-> FALSE, cmd |-> cmd,
            day |-> TrimSpace(Slice(msg, i + 4, l))]

\* parseTokensFromMsg of the find-trucks revision " at <location> <day>".
parseTokensFromMsgAt(msg) ==
  LET l == Len(msg)
      i == Index(msg, s_sp \o s_at)
      cmd == IF i > 0 THEN TrimSpace(ToLower(Slice(msg, 0, i))) ELSE <<>>
  IN  IF l = 0
      THEN [panic |-> FALSE, err |-> TRUE, cmd |-> <<>>, loc |-> <<>>,
            hood |-> <<>>, at |-> <<>>]
      ELSE IF ~SliceOK(msg, i + 3, l)
      THEN [panic |-> TRUE, err |-> FALSE, cmd |-> <<>>, loc |-> <<>>,
            hood |-> <<>>, at |-> <<>>]
      ELSE LET loc == TrimSpace(Slice(msg, i + 3, l))
               tokens == Split(loc, s_sp)
           IN  [panic |-> FALSE, err |-> FALSE, cmd |-> cmd,
                loc |-> IF Len(tokens) = 2 THEN tokens[1] ELSE loc,
                hood |-> <<>>,
                at |-> IF Len(tokens) = 2 THEN tokens[2] ELSE <<>>]

\* parseTokensFromMsg of the two-connective revision
\* " at <location> in <neighborhood> <day>".
parseTokensFromMsgAtIn(msg) ==
  LET l == Len(msg)
      i == Index(msg, s_sp \o s_at)
      j == Index(msg, s_sp \o s_in)
      cmd == IF i > 0 THEN TrimSpace(ToLower(Slice(msg, 0, i))) ELSE <<>>
      bad == [panic |-> TRUE, err |-> FALSE, cmd |-> <<>>, loc |-> <<>>,
              hood |-> <<>>, at |-> <<>>]
  IN  IF l = 0
      THEN [panic |-> FALSE, err |-> TRUE, cmd |-> <<>>, loc |-> <<>>,
            hood |-> <<>>, at |-> <<>>]
      ELSE IF j > 0 /\ i > 0
      THEN IF ~SliceOK(msg, i + 3, j) \/ ~SliceOK(msg, j + 3, l) THEN bad
           ELSE LET hood == TrimSpace(Slice(msg, j + 3, l))
                    tokens == Split(hood, s_sp)
                IN  [panic |-> FALSE, err |-> FALSE, cmd |-> cmd,
                     loc |-> Slice(msg, i + 3, j),
                     hood |-> IF Len(tokens) = 2 THEN tokens[1] ELSE hood,
                     at |-> IF Len(tokens) = 2 THEN tokens[2] ELSE <<>>]
      ELSE IF ~SliceOK(msg, i + 3, l) THEN bad
           ELSE [panic |-> FALSE, err |-> FALSE, cmd |-> cmd,
                 loc |-> Slice(msg, i + 3, l), hood |-> <<>>, at |-> <<>>]

\* --------------------------------------------------------------- time
\* A calendar date; time.Now() is drawn from Dates.
Date(y, m, d) == [y |-> y, m |-> m, d |-> d]

Dates == {Date(2019, 10, 7), Date(2019, 12, 31), Date(2020, 2, 28),
          Date(2020, 2, 29), Date(2019, 2, 28)}

IsLeap(y) == (y % 4 = 0 /\ y % 100 # 0) \/ y % 400 = 0

DaysIn(y, m) ==
  IF m = 2 THEN (IF IsLeap(y) THEN 29 ELSE 28)
  ELSE IF m \in {4, 6, 9, 11} THEN 30 ELSE 31

\* time.Time.AddDate(0, 0, 1): the next calendar day.
AddDay(t) ==
  IF t.d < DaysIn(t.y, t.m) THEN Date(t.y, t.m, t.d + 1)
  ELSE IF t.m < 12 THEN Date(t.y, t.m + 1, 1)
  ELSE Date(t.y + 1, 1, 1)

DigitChars == <<"0","1","2","3","4","5","6","7","8","9">>
Digit(n) == DigitChars[(n % 10) + 1]

\* time.Time.Format("2006-01-02").
FormatDate(t) ==
  <<Digit(t.y \div 1000), Digit(t.y \div 100), Digit(t.y \div 10), Digit(t.y),
    "-", Digit(t.m \div 10), Digit(t.m), "-", Digit(t.d \div 10), Digit(t.d)>>

\* ------------------------------------------------------ domain clients
\* What one HTTP round trip can do: "ok" (the body decodes to what the
\* service holds), "notFound" (a body that decodes to the zero value),
\* "undecodable" (a body that does not decode), and the transport failures
\* "parseErr" (url.Parse), "requestErr" (http.NewRequest), "doErr" (client.Do).
HttpOutcomes == {"ok", "notFound", "undecodable", "parseErr", "requestErr", "doErr"}
TransportFailures == {"undecodable", "parseErr", "requestErr", "doErr"}

zeroLocation == [ID |-> <<>>, Name |-> <<>>]
zeroTruck == [Rating |-> 0, RatingCount |-> 0]
NoEvents == <<>>

\* A variant of the day switch that folds the case of the token and trims it.
onDayOf_folded(on, now) ==
  IF ToLower(TrimSpace(on)) = tomorrow THEN FormatDate(AddDay(now))
  ELSE FormatDate(now)

\* The day switch of GetEvents and FindTrucks: the value of the day query
\* parameter for the day token on, at the date now.
onDayOf(on, now) ==
  IF on = tomorrow THEN FormatDate(AddDay(now)) ELSE FormatDate(now)

\* seattlefoodtruck.callAPI: the error it returns and what it leaves in data.
callAPI(http, zero, body) ==
  IF http \in {"parseErr", "requestErr", "doErr"}
  THEN [err |-> TRUE, data |-> zero]
  ELSE [err |-> FALSE, data |-> IF http = "ok" THEN body ELSE zero]

\* foodTruckClient.GetEvents, the client that goes through callAPI.
GetEvents(id, on, now, http, body) ==
  IF Len(id) = 0
  THEN [err |-> TRUE, val |-> NoEvents, onDay |-> <<>>]
  ELSE [err |-> FALSE, val |-> callAPI(http, NoEvents, body).data,
        onDay |-> onDayOf(on, now)]

\* foodTruckClient.GetLocation, the client that goes through callAPI.
GetLocation(id, http, body) ==
  IF Len(id) = 0
  THEN [err |-> TRUE, val |-> zeroLocation]
  ELSE [err |-> FALSE, val |-> callAPI(http, zeroLocation, body).data]

\* foodTruckClient.GetTruck.
GetTruck(id, http, body) ==
  IF Len(id) = 0
  THEN [err |-> TRUE, val |-> zeroTruck]
  ELSE [err |-> FALSE, val |-> callAPI(http, zeroTruck, body).data]

\* foodTruckClient.GetEvents of the earlier client, with the HTTP call inline.
GetEventsInline(id, on, now, http, body) ==
  IF Len(id) = 0
  THEN [err |-> TRUE, val |-> NoEvents, onDay |-> <<>>]
  ELSE IF http \in {"parseErr", "requestErr", "doErr"}
  THEN [err |-> TRUE, val |-> NoEvents, onDay |-> onDayOf(on, now)]
  ELSE [err |-> FALSE, val |-> IF http = "ok" THEN body ELSE NoEvents,
        onDay |-> onDayOf(on, now)]

\* foodTruckClient.GetLocation of the earlier client.
GetLocationInline(id, http, body) ==
  IF Len(id) = 0
  THEN [err |-> TRUE, val |-> zeroLocation]
  ELSE IF http \in {"parseErr", "requestErr", "doErr"}
  THEN [err |-> TRUE, val |-> zeroLocation]
  ELSE [err |-> FALSE, val |-> IF http = "ok" THEN body ELSE zeroLocation]

\* ------------------------------------------------------- pkg.API client
\* A pkg.Location as the flows read it: its id, its name, the id of its
\* neighborhood (l.Neighborhood.ID) and its events, each event being the list
\* of the ids of its trucks.
zeroPkgLocation == [ID |-> <<>>, Name |-> <<>>, NeighborhoodID |-> 0, Events |-> <<>>]
zeroNeighborhood == [ID |-> <<>>]
NoLocations == <<>>

\* pkg.trimSpaceAndLower.
trimSpaceAndLower(s) == ToLower(TrimSpace(s))

\* A variant of contains that returns every location whose id matches.
RECURSIVE contains_all(_, _)
contains_all(locs, id) ==
  IF Len(locs) = 0 THEN <<>>
  ELSE (IF trimSpaceAndLower(locs[1].ID) = trimSpaceAndLower(id) THEN <<locs[1]>>
        ELSE <<>>) \o contains_all(Tail(locs), id)

\* pkg.contains: the first location whose id matches, as a list of at most one.
RECURSIVE contains(_, _)
contains(locs, id) ==
  IF Len(locs) = 0 THEN <<>>
  ELSE IF trimSpaceAndLower(locs[1].ID) = trimSpaceAndLower(id) THEN <<locs[1]>>
  ELSE contains(Tail(locs), id)

\* The loop of FindTrucks over the requested location ids.
RECURSIVE filterLocations(_, _)
filterLocations(apiLocations, locationIDs) ==
  IF Len(locationIDs) = 0 THEN <<>>
  ELSE contains(apiLocations, locationIDs[1])
         \o filterLocations(apiLocations, Tail(locationIDs))

\* A variant of FindTrucks that returns the locations it decoded along with
\* its error.
FindTrucks_keepsResult(neighborhood, locationIDs, at, now, http, body) ==
  [err |-> http \in TransportFailures,
   val |-> filterLocations(IF http = "notFound" THEN NoLocations ELSE body,
                           locationIDs),
   onDay |-> onDayOf(at, now)]

\* pkg.API.FindTrucks.
FindTrucks(neighborhood, locationIDs, at, now, http, body) ==
  IF http \in TransportFailures
  THEN [err |-> TRUE, val |-> NoLocations, onDay |-> onDayOf(at, now)]
  ELSE [err |-> FALSE,
        val |-> filterLocations(IF http = "ok" THEN body ELSE NoLocations,
                                locationIDs),
        onDay |-> onDayOf(at, now)]

\* pkg.API.GetLocation.
GetLocationPkg(id, http, body) ==
  IF Len(id) = 0 \/ http \in TransportFailures
  THEN [err |-> TRUE, val |-> zeroPkgLocation]
  ELSE [err |-> FALSE, val |-> IF http = "ok" THEN body ELSE zeroPkgLocation]

\* pkg.API.GetNeighborhood.
GetNeighborhood(id, http, body) ==
  IF id = 0 \/ http \in TransportFailures
  THEN [err |-> TRUE, val |-> zeroNeighborhood]
  ELSE [err |-> FALSE, val |-> IF http = "ok" THEN body ELSE zeroNeighborhood]

\* ------------------------------------------------- what the service holds
s_t1 == <<"t","1">>
s_n7 == <<"n","7">>
s_tok == <<"x","o","x","b">>
s_C1 == <<"C","1">>
s_C9 == <<"C","9">>

\* The truck id of a booking: a set one or an empty one.
TruckIDs == {s_t1, <<>>}

SeqsUpTo(S, n) == UNION {[1..k -> S] : k \in 0..n}

\* How many bookings of a list of events carry an empty truck id.
RECURSIVE CountEmpty(_)
CountEmpty(evs) ==
  IF Len(evs) = 0 THEN 0
  ELSE Cardinality({k \in 1..Len(evs[1]) : evs[1][k] = <<>>}) + CountEmpty(Tail(evs))

\* How many bookings a list of events holds.
RECURSIVE CountBookings(_)
CountBookings(evs) ==
  IF Len(evs) = 0 THEN 0 ELSE Len(evs[1]) + CountBookings(Tail(evs))

\* The event lists the service answers with: at most MaxEvents events with at
\* most MaxBookings bookings between them (an event is the list of its
\* bookings' truck ids), at most one of them with an empty truck id.
EventLists ==
  {evs \in SeqsUpTo(SeqsUpTo(TruckIDs, MaxBookings), MaxEvents) :
     CountBookings(evs) <= MaxBookings /\ CountEmpty(evs) <= 1}

\* The location the service holds under a non-empty id.
LocationBody(id) == [ID |-> id, Name |-> ToLower(id)]
TruckBody == [Rating |-> 46, RatingCount |-> 12]
NeighborhoodBody == [ID |-> s_n7]

\* ----------------------------------------------------------------- state
Procs == {"w1", "cron"}

VARIABLES
  rev,          \* the revision of the bot that runs
  token,        \* env TOKEN
  channel,      \* env CHANNEL
  locations,    \* env LOCATION_IDS
  cronStarted,  \* whether startJob started the cron job
  now,          \* the date time.Now() falls on
  pc,           \* where each invocation stands
  inv,          \* each invocation's local variables
  trace,        \* the Domain Client calls and the chat posts, in order
  out           \* the last direct call of a client method or of a parser

vars == <<rev, token, channel, locations, cronStarted, now, pc, inv, trace, out>>
config == <<rev, token, channel, locations, cronStarted, now>>

Revs == {"events", "at", "atin", "helpOnly"}

\* The messages posted as plain text.
MsgCannotHelp == "Sorry I cannot help you with this, please try help to see things you can ask me"
MsgLocationTrouble == "Sorry I'm having trouble getting location details"
MsgEventsTrouble == "Sorry I'm having trouble getting events"
MsgLocationsNotSet == "locations not set"
MsgLocationIssue == "Sorry having issues processing your request. Please try again..."
MsgNeighborhoodIssue == "Sorry having issues processing your request, please try again..."
MsgRequired == "To find trucks location and neighborhood is required."
MsgHelp == "You can ask me"
MsgHelpOnly == "*You can ask me*"
MsgEventTitle == "*%s* \t %v %v %v - %v \n"
MsgBlocks == ""

idleInv ==
  [channel |-> <<>>, text |-> <<>>, cmd |-> <<>>, day |-> <<>>, loc |-> <<>>,
   hood |-> <<>>, forLocations |-> <<>>, i |-> 0, j |-> 0, k |-> 0,
   location |-> zeroLocation, events |-> <<>>, msg |-> <<>>, found |-> <<>>,
   served |-> 0, logged |-> <<>>]

\* One entry of the trace: a Domain Client call (op names the method, arg its
\* argument, onDay the day it asked for, got the number of events GetEvents
\* returned) or a chat post (op "PostMessage").
Call(p, op, arg, r) ==
  [p |-> p, op |-> op, arg |-> arg, err |-> r.err, onDay |-> r.onDay,
   got |-> IF op = "GetEvents" THEN Len(r.val) ELSE 0,
   channel |-> <<>>, text |-> "", blocks |-> <<>>]

Post(p, ch, text, blocks) ==
  [p |-> p, op |-> "PostMessage", arg |-> <<>>, err |-> FALSE, onDay |-> <<>>,
   got |-> 0, channel |-> ch, text |-> text, blocks |-> blocks]

NoCall == [fn |-> "none"]

NoDay(r) == [err |-> r.err, val |-> r.val, onDay |-> <<>>]

\* ------------------------------------------------------------- requests
Mention(ws) == s_bot \o s_sp \o Words(ws)

\* The mention texts the webhook delivers.
Texts ==
  { Mention(<<s_help>>),
    Mention(<<s_Help>>),
    Mention(<<s_hello>>),
    s_help,
    s_bot,
    <<>>,
    Mention(<<s_find, s_events>>),
    Mention(<<s_find, s_events, s_for, s_tomorrow>>),
    Mention(<<s_find, s_events, s_for, s_Tomorrow>>),
    Mention(<<s_find, s_trucks>>),
    Mention(<<s_find, s_trucks, s_at>>),
    Mention(<<s_find, s_trucks, s_at, s_slu, s_tomorrow>>),
    Mention(<<s_find, s_trucks, s_at, s_SLU>>),
    Mention(<<s_find, s_trucks, s_at, s_slu, s_in>>),
    Mention(<<s_find, s_trucks, s_at, s_slu, s_in, s_dt, s_tomorrow>>),
    Mention(<<s_find, s_trucks, s_in, s_dt, s_at, s_slu>>) }

\* What reaches homeHandler: a GET, or a POST whose payload is unparsable, a
\* URL verification, or a callback with an inner event.
Requests ==
  {[method |-> "get", kind |-> "", inner |-> "", text |-> <<>>]}
  \cup {[method |-> "post", kind |-> k, inner |-> "", text |-> <<>>] :
          k \in {"unparsable", "url_verification"}}
  \cup {[method |-> "post", kind |-> "event_callback", inner |-> "message", text |-> <<>>]}
  \cup {[method |-> "post", kind |-> "event_callback", inner |-> "app_mention", text |-> t] :
          t \in Texts}

\* --------------------------------------------------------------- blocks
\* The blocks of a block message, and the attachments of an event post.
hsb(loc) == [type |-> "section", role |-> "location", ref |-> loc.ID, n |-> 0,
             rated |-> FALSE, accessory |-> FALSE]
div == [type |-> "divider", role |-> "divider", ref |-> <<>>, n |-> 0,
        rated |-> FALSE, accessory |-> FALSE]
shsb(e) == [type |-> "section", role |-> "event", ref |-> <<>>, n |-> Len(e),
            rated |-> FALSE, accessory |-> FALSE]
bhsb_anonymous(truckID, truck) ==
  [type |-> "section", role |-> "booking", ref |-> <<>>, n |-> 0,
   rated |-> ~truck.err, accessory |-> TRUE]
bhsb_alwaysRated(truckID, truck) ==
  [type |-> "section", role |-> "booking", ref |-> truckID, n |-> 0,
   rated |-> TRUE, accessory |-> TRUE]
bhsb(truckID, truck) ==
  [type |-> "section", role |-> "booking", ref |-> truckID, n |-> 0,
   rated |-> ~truck.err, accessory |-> TRUE]
attachment(truckID) ==
  [type |-> "attachment", role |-> "truck", ref |-> truckID, n |-> 0,
   rated |-> FALSE, accessory |-> FALSE]

\* ------------------------------------------------------ steps of the bot
Goto(p, where) == pc' = [pc EXCEPT ![p] = where]
Emit(entries) == trace' = trace \o entries

\* The mention stripping of respond: the text after the first ">".
stripMention(text) == Slice(text, Index(text, <<">">>) + 1, Len(text))

\* A variant of the entry of postEvents that keeps the day in one variable
\* of the package, which every invocation in flight reads.
postEvents_sharedDay(p, ch, day, base) ==
  LET forLocations == Split(locations, s_comma)
      mine == [base EXCEPT !.channel = ch, !.day = day,
                           !.forLocations = forLocations]
  IN  /\ Goto(p, IF Len(forLocations) > 0 THEN "GetLocation" ELSE "done")
      /\ inv' = [q \in Procs |-> IF q = p THEN mine
                                 ELSE [inv[q] EXCEPT !.day = day]]
      /\ IF Len(forLocations) > 0 THEN UNCHANGED trace
         ELSE Emit(<<Post(p, ch, MsgLocationsNotSet, <<>>)>>)

\* The entry of postEvents, up to its first Domain Client call; base holds
\* the caller's locals.
postEvents(p, ch, day, base) ==
  LET forLocations == Split(locations, s_comma)
      mine == [base EXCEPT !.channel = ch, !.day = day]
  IN  IF Len(forLocations) > 0
      THEN /\ Goto(p, "GetLocation")
           /\ inv' = [inv EXCEPT ![p] = [mine EXCEPT !.forLocations = forLocations]]
           /\ UNCHANGED trace
      ELSE /\ Goto(p, "done")
           /\ inv' = [inv EXCEPT ![p] = mine]
           /\ Emit(<<Post(p, ch, MsgLocationsNotSet, <<>>)>>)

\* A respond that ends with one plain post.
replyAndStop(p, ch, base, msg) ==
  /\ Goto(p, "done")
  /\ inv' = [inv EXCEPT ![p] = [base EXCEPT !.channel = ch]]
  /\ Emit(<<Post(p, ch, msg, <<>>)>>)

\* A respond that ends in a slice-bounds panic.
panicAndStop(p, ch, base) ==
  /\ Goto(p, "panic")
  /\ inv' = [inv EXCEPT ![p] = [base EXCEPT !.channel = ch]]
  /\ UNCHANGED trace

\* Whether time.LoadLocation("America/Los_Angeles") finds the zone: the image
\* the Dockerfile builds holds no zone database.
ZoneOutcomes == {"loaded", "missing"}

\* formatDateAsPST: the time in the zone when it is loaded, the time as it
\* is otherwise.
formatDateAsPST(t, zone) ==
  [panic |-> FALSE,
   text |-> FormatDate(t) \o <<IF zone = "loaded" THEN "PST" ELSE "UTC">>]

\* formatDate of the find-trucks revisions: the error of LoadLocation is
\* dropped, and t.In(nil) panics.
formatDate(t, zone) ==
  IF zone = "loaded" THEN [panic |-> FALSE, text |-> FormatDate(t) \o <<"PST">>]
  ELSE [panic |-> TRUE, text |-> <<>>]

\* The attachment of the help message: the commands as its title, and its
\* footer.
helpAttachment(footer) ==
  [type |-> "attachment", role |-> "commands", ref |-> footer, n |-> 0,
   rated |-> FALSE, accessory |-> FALSE]

\* showHelp of the three revisions that have a find command.
showHelp(p, ch, base, zone) ==
  LET stamp == IF rev = "events" THEN formatDateAsPST(now, zone)
               ELSE formatDate(now, zone)
  IN  /\ inv' = [inv EXCEPT ![p] = [base EXCEPT !.channel = ch]]
      /\ IF stamp.panic
         THEN Goto(p, "panic") /\ UNCHANGED trace
         ELSE /\ Goto(p, "done")
              /\ Emit(<<Post(p, ch, MsgHelp,
                          <<helpAttachment(<<"Slack Events API | ">> \o stamp.text)>>)>>)

\* showHelp of the help-only revision.
showHelpOnly(p, ch, base) ==
  /\ inv' = [inv EXCEPT ![p] = [base EXCEPT !.channel = ch]]
  /\ Goto(p, "done")
  /\ Emit(<<Post(p, ch, MsgHelpOnly, <<helpAttachment(<<"Slack API">>)>>)>>)

\* respond of the find-events revision.
respondEvents(p, ch, eventText, zone) ==
  LET text == stripMention(eventText)
      find == Contains(text, findEventsCmd)
      parsed == parseTokensFromMsgFor(text)
      cmd == TrimSpace(IF find THEN parsed.cmd ELSE text)
      day == IF find THEN parsed.day ELSE <<>>
      base == [idleInv EXCEPT !.text = eventText, !.cmd = cmd]
  IN  IF find /\ parsed.panic THEN panicAndStop(p, ch, base)
      ELSE IF cmd = helpCmd THEN showHelp(p, ch, base, zone)
      ELSE IF cmd = findEventsCmd THEN postEvents(p, ch, day, base)
      ELSE replyAndStop(p, ch, base, MsgCannotHelp)

\* respond of the revision "find trucks at <location> <day>": findTrucks
\* starts with GetLocation.
respondAt(p, ch, eventText, zone) ==
  LET text == stripMention(eventText)
      find == Contains(text, findTrucksCmd)
      parsed == parseTokensFromMsgAt(text)
      cmd == TrimSpace(IF find THEN parsed.cmd ELSE text)
      base == [idleInv EXCEPT !.text = eventText, !.cmd = cmd,
                 !.loc = IF find THEN parsed.loc ELSE <<>>,
                 !.day = IF find THEN parsed.at ELSE <<>>]
  IN  IF find /\ parsed.panic THEN panicAndStop(p, ch, base)
      ELSE IF cmd = helpCmd THEN showHelp(p, ch, base, zone)
      ELSE IF cmd = findTrucksCmd
      THEN /\ Goto(p, "GetLocationPkg")
           /\ inv' = [inv EXCEPT ![p] = [base EXCEPT !.channel = ch]]
           /\ UNCHANGED trace
      ELSE replyAndStop(p, ch, base, MsgCannotHelp)

\* respond of the revision "find trucks at <location> in <neighborhood> <day>",
\* with the entry of its findTrucks.
respondAtIn(p, ch, eventText, zone) ==
  LET text == stripMention(eventText)
      find == Contains(text, findTrucksCmd)
      parsed == parseTokensFromMsgAtIn(text)
      cmd == TrimSpace(IF find THEN parsed.cmd ELSE text)
      base == [idleInv EXCEPT !.text = eventText, !.cmd = cmd,
                 !.loc = IF find THEN parsed.loc ELSE <<>>,
                 !.hood = IF find THEN parsed.hood ELSE <<>>,
                 !.day = IF find THEN parsed.at ELSE <<>>]
  IN  IF find /\ parsed.panic THEN panicAndStop(p, ch, base)
      ELSE IF cmd = helpCmd THEN showHelp(p, ch, base, zone)
      ELSE IF cmd = findTrucksCmd
      THEN IF Len(base.loc) > 0 /\ Len(base.hood) > 0
           THEN /\ Goto(p, "FindTrucks")
                /\ inv' = [inv EXCEPT ![p] = [base EXCEPT !.channel = ch]]
                /\ UNCHANGED trace
           ELSE replyAndStop(p, ch, base, MsgRequired)
      ELSE replyAndStop(p, ch, base, MsgCannotHelp)

\* respond of the help-only revision: anything but help is dropped.
respondHelpOnly(p, ch, eventText) ==
  LET cmd == ToLower(TrimSpace(stripMention(eventText)))
      base == [idleInv EXCEPT !.text = eventText, !.cmd = cmd]
  IN  IF cmd = helpCmd THEN showHelpOnly(p, ch, base)
      ELSE /\ Goto(p, "done")
           /\ inv' = [inv EXCEPT ![p] = [base EXCEPT !.channel = ch]]
           /\ UNCHANGED trace

\* A variant of homeHandler that hands the inner event of every callback to
\* respond.
HomeHandler_anyCallback(p, req) ==
  /\ pc[p] = "idle"
  /\ p # "cron"
  /\ req.method = "get" => rev \in {"events", "at"}
  /\ IF req.method = "post" /\ req.kind = "event_callback"
     THEN /\ Goto(p, "respond")
          /\ inv' = [inv EXCEPT ![p] = [idleInv EXCEPT !.channel = s_C9,
                                                       !.text = req.text]]
     ELSE /\ Goto(p, "done")
          /\ UNCHANGED inv
  /\ UNCHANGED <<config, out, trace>>

\* homeHandler: only a POST carrying an app-mention callback reaches respond.
\* The routers of the revisions "atin" and "helpOnly" register POST alone.
HomeHandler(p, req) ==
  /\ pc[p] = "idle"
  /\ p # "cron"
  /\ req.method = "get" => rev \in {"events", "at"}
  /\ IF req.method = "post" /\ req.kind = "event_callback" /\ req.inner = "app_mention"
     THEN /\ Goto(p, "respond")
          /\ inv' = [inv EXCEPT ![p] = [idleInv EXCEPT !.channel = s_C9,
                                                       !.text = req.text]]
     ELSE /\ Goto(p, "done")
          /\ UNCHANGED inv
  /\ UNCHANGED <<config, out, trace>>

\* respond, up to its first Domain Client call or its only post.
Respond(p) ==
  /\ pc[p] = "respond"
  /\ \E zone \in ZoneOutcomes :
     CASE rev = "events" -> respondEvents(p, inv[p].channel, inv[p].text, zone)
       [] rev = "at" -> respondAt(p, inv[p].channel, inv[p].text, zone)
       [] rev = "atin" -> respondAtIn(p, inv[p].channel, inv[p].text, zone)
       [] OTHER -> respondHelpOnly(p, inv[p].channel, inv[p].text)
  /\ UNCHANGED <<config, out>>

\* The function the cron job runs at each tick: postEvents(channel, today).
Tick(p) ==
  /\ p = "cron"
  /\ cronStarted
  /\ pc[p] = "idle"
  /\ postEvents(p, channel, today, idleInv)
  /\ UNCHANGED <<config, out>>

\* ----------------------------------------------------------- postEvents
\* A variant of the divider test that fires at the last event.
dividerAfterEvent_last(i, nLocations, j, nEvents) ==
  i # nLocations /\ j = nEvents - 1

\* The test that guards the divider after an event's bookings; i and j are
\* the loop indices, counted from 0.
dividerAfterEvent(i, nLocations, j, nEvents) == i # nLocations /\ j = nEvents

\* A variant of closeEvent that closes every event with a divider.
closeEvent_always(msg, i, nLocations, j, nEvents) == Append(msg, div)

\* The end of one round of the loop over the events.
closeEvent(msg, i, nLocations, j, nEvents) ==
  IF dividerAfterEvent(i, nLocations, j, nEvents) THEN Append(msg, div) ELSE msg

\* The loop over the events from event j on, up to the next GetTruck call or
\* to the end of the events.
RECURSIVE runEvents(_, _, _, _, _)
runEvents(msg, events, j, i, nLocations) ==
  IF j >= Len(events) THEN [pc |-> "PostMessage", j |-> j, msg |-> msg]
  ELSE LET withHeader == Append(msg, shsb(events[j + 1]))
       IN  IF Len(events[j + 1]) = 0
           THEN runEvents(closeEvent(withHeader, i, nLocations, j, Len(events)),
                          events, j + 1, i, nLocations)
           ELSE [pc |-> "GetTruck", j |-> j, msg |-> withHeader]

\* A variant of the end of a round that runs the round of the same location
\* again.
nextLocation_again(p, me) ==
  /\ Goto(p, "GetLocation")
  /\ inv' = [inv EXCEPT ![p] = [me EXCEPT !.j = 0, !.k = 0, !.events = <<>>,
                                          !.msg = <<>>]]

\* A variant of the end of a round that ends the loop.
nextLocation_stops(p, me) ==
  /\ Goto(p, "done")
  /\ inv' = [inv EXCEPT ![p] = me]

\* The end of one round of the loop over the locations.
nextLocation(p, me) ==
  IF me.i + 1 < Len(me.forLocations)
  THEN /\ Goto(p, "GetLocation")
       /\ inv' = [inv EXCEPT ![p] = [me EXCEPT !.i = me.i + 1, !.j = 0, !.k = 0,
                                       !.events = <<>>, !.msg = <<>>]]
  ELSE /\ Goto(p, "done")
       /\ inv' = [inv EXCEPT ![p] = me]

\* The event lists the service still answers with in this invocation.
EventListsLeft(me) == {evs \in EventLists : Len(evs) <= MaxEvents - me.served}

\* postEvents: what follows a failed GetLocation, the post and the return.
locationFailed_noReturn(p, call) ==
  /\ Goto(p, "GetEvents")
  /\ Emit(<<call, Post(p, inv[p].channel, MsgLocationTrouble, <<>>)>>)
  /\ UNCHANGED inv

locationFailed(p, call) ==
  /\ Goto(p, "done")
  /\ Emit(<<call, Post(p, inv[p].channel, MsgLocationTrouble, <<>>)>>)
  /\ UNCHANGED inv

\* postEvents: proxy.GetLocation(id) for the location in turn.
GetLocationStep(p) ==
  /\ pc[p] = "GetLocation"
  /\ \E http \in HttpOutcomes :
       LET me == inv[p]
           id == me.forLocations[me.i + 1]
           r == GetLocation(id, http, LocationBody(id))
       IN  IF r.err
           THEN locationFailed(p, Call(p, "GetLocation", id, NoDay(r)))
           ELSE /\ Goto(p, "GetEvents")
                /\ Emit(<<Call(p, "GetLocation", id, NoDay(r))>>)
                /\ inv' = [inv EXCEPT ![p] = [me EXCEPT !.location = r.val]]
  /\ UNCHANGED <<config, out>>

\* postEvents: proxy.GetEvents(id, day), then the blocks up to the first
\* GetTruck call.
GetEventsStep(p) ==
  /\ pc[p] = "GetEvents"
  /\ \E http \in HttpOutcomes :
     \E body \in IF http = "ok" THEN EventListsLeft(inv[p]) ELSE {NoEvents} :
       LET me == inv[p]
           id == me.forLocations[me.i + 1]
           r == GetEvents(id, me.day, now, http, body)
           go == runEvents(<<hsb(me.location), div>>, r.val, 0, me.i,
                           Len(me.forLocations))
       IN  /\ Emit(<<Call(p, "GetEvents", id, r)>>
                     \o IF r.err THEN <<Post(p, me.channel, MsgEventsTrouble, <<>>)>>
                        ELSE <<>>)
           /\ IF r.err THEN Goto(p, "done") /\ UNCHANGED inv
              ELSE IF Len(r.val) = 0 THEN nextLocation(p, me)
              ELSE /\ Goto(p, go.pc)
                   /\ inv' = [inv EXCEPT ![p] = [me EXCEPT !.events = r.val,
                                !.served = me.served + Len(r.val),
                                !.j = go.j, !.k = 0, !.msg = go.msg]]
  /\ UNCHANGED <<config, out>>

\* postEvents: proxy.GetTruck for the booking in turn and its detail block,
\* then the blocks up to the next GetTruck call.
GetTruckStep(p) ==
  /\ pc[p] = "GetTruck"
  /\ \E http \in HttpOutcomes :
       LET me == inv[p]
           bookings == me.events[me.j + 1]
           truckID == bookings[me.k + 1]
           r == GetTruck(truckID, http, TruckBody)
           msg == Append(me.msg, bhsb(truckID, r))
           go == runEvents(closeEvent(msg, me.i, Len(me.forLocations), me.j,
                                      Len(me.events)),
                           me.events, me.j + 1, me.i, Len(me.forLocations))
       IN  /\ Emit(<<Call(p, "GetTruck", truckID, NoDay(r))>>)
           /\ IF me.k + 1 < Len(bookings)
              THEN /\ UNCHANGED pc
                   /\ inv' = [inv EXCEPT ![p] = [me EXCEPT !.k = me.k + 1, !.msg = msg]]
              ELSE /\ Goto(p, go.pc)
                   /\ inv' = [inv EXCEPT ![p] = [me EXCEPT !.j = go.j, !.k = 0,
                                                           !.msg = go.msg]]
  /\ UNCHANGED <<config, out>>

\* postEvents: the post of one location's block message.
PostBlocks(p) ==
  /\ pc[p] = "PostMessage"
  /\ Emit(<<Post(p, inv[p].channel, MsgBlocks, inv[p].msg)>>)
  /\ nextLocation(p, inv[p])
  /\ UNCHANGED <<config, out>>

\* ----------------------------------------------------------- findTrucks
\* The ids of the locations in the answers of the locations API.
ResponseIDs == {s_slu, s_SLU, s_dt}

ResponseLocations(eventLists) ==
  {[ID |-> id, Name |-> ToLower(id), NeighborhoodID |-> 7, Events |-> evs] :
     id \in ResponseIDs, evs \in eventLists}

\* The answers of the locations API: no location, one, or two locations of at
\* most one event each.
FindTrucksBodies ==
  {<<>>}
  \cup {<<a>> : a \in ResponseLocations(EventLists)}
  \cup {<<a, b>> : a, b \in ResponseLocations({evs \in EventLists : Len(evs) <= 1})}

\* The first event at or after event j of location i of the locations found.
RECURSIVE seekEvent(_, _, _)
seekEvent(found, i, j) ==
  IF i >= Len(found) THEN [pc |-> "done", i |-> i, j |-> 0]
  ELSE IF j < Len(found[i + 1].Events) THEN [pc |-> "PostEvent", i |-> i, j |-> j]
  ELSE seekEvent(found, i + 1, 0)

\* A variant of the GetLocation step of findTrucks that posts on a failure and
\* goes on to GetNeighborhood.
GetLocationPkgStep_noReturn(p) ==
  /\ pc[p] = "GetLocationPkg"
  /\ \E http \in HttpOutcomes :
       LET me == inv[p]
           body == [ID |-> me.loc, Name |-> ToLower(me.loc), NeighborhoodID |-> 7,
                    Events |-> <<>>]
           r == GetLocationPkg(me.loc, http, body)
       IN  /\ Goto(p, "GetNeighborhood")
           /\ Emit(<<Call(p, "GetLocation", me.loc, NoDay(r))>>
                     \o IF r.err THEN <<Post(p, me.channel, MsgLocationIssue, <<>>)>>
                        ELSE <<>>)
           /\ inv' = [inv EXCEPT ![p] = [me EXCEPT !.location = r.val]]
  /\ UNCHANGED <<config, out>>

\* findTrucks of the revision "at": proxy.GetLocation(loc).
GetLocationPkgStep(p) ==
  /\ pc[p] = "GetLocationPkg"
  /\ \E http \in HttpOutcomes :
       LET me == inv[p]
           body == [ID |-> me.loc, Name |-> ToLower(me.loc), NeighborhoodID |-> 7,
                    Events |-> <<>>]
           r == GetLocationPkg(me.loc, http, body)
       IN  IF r.err
           THEN /\ Goto(p, "done")
                /\ Emit(<<Call(p, "GetLocation", me.loc, NoDay(r)),
                          Post(p, me.channel, MsgLocationIssue, <<>>)>>)
                /\ inv' = [inv EXCEPT ![p].logged = Append(@, "GetLocation")]
           ELSE /\ Goto(p, "GetNeighborhood")
                /\ Emit(<<Call(p, "GetLocation", me.loc, NoDay(r))>>)
                /\ inv' = [inv EXCEPT ![p] = [me EXCEPT !.location = r.val]]
  /\ UNCHANGED <<config, out>>

\* findTrucks of the revision "at": proxy.GetNeighborhood(l.Neighborhood.ID),
\* then the test of the location argument.
GetNeighborhoodStep(p) ==
  /\ pc[p] = "GetNeighborhood"
  /\ \E http \in HttpOutcomes :
       LET me == inv[p]
           r == GetNeighborhood(me.location.NeighborhoodID, http, NeighborhoodBody)
           call == Call(p, "GetNeighborhood", me.location.NeighborhoodID, NoDay(r))
       IN  IF r.err
           THEN /\ Goto(p, "done")
                /\ Emit(<<call, Post(p, me.channel, MsgNeighborhoodIssue, <<>>)>>)
                /\ inv' = [inv EXCEPT ![p].logged = Append(@, "GetNeighborhood")]
           ELSE IF Len(me.loc) > 0
           THEN /\ Goto(p, "FindTrucks")
                /\ Emit(<<call>>)
                /\ inv' = [inv EXCEPT ![p] = [me EXCEPT !.hood = r.val.ID]]
           ELSE /\ Goto(p, "done")
                /\ Emit(<<call, Post(p, me.channel, MsgRequired, <<>>)>>)
                /\ inv' = [inv EXCEPT ![p] = [me EXCEPT !.hood = r.val.ID]]
  /\ UNCHANGED <<config, out>>

\* findTrucks of the revisions "at" and "atin": proxy.FindTrucks(hood, locs,
\* at); an error is logged (the field logged keeps the methods whose error
\* the invocation logged) and the loop runs over what was returned.
FindTrucksStep(p) ==
  /\ pc[p] = "FindTrucks"
  /\ \E http \in HttpOutcomes :
     \E body \in FindTrucksBodies :
       LET me == inv[p]
           r == FindTrucks(me.hood, <<me.loc>>, me.day, now, http, body)
           go == seekEvent(r.val, 0, 0)
       IN  /\ Emit(<<Call(p, "FindTrucks", me.loc, r)>>)
           /\ Goto(p, go.pc)
           /\ inv' = [inv EXCEPT ![p] = [me EXCEPT !.found = r.val, !.i = go.i,
                                !.j = go.j,
                                !.logged = IF r.err THEN Append(@, "FindTrucks") ELSE @]]
  /\ UNCHANGED <<config, out>>

\* findTrucks: the post of one event, titled with the location and the time,
\* with one attachment for each truck.
PostEvent(p) ==
  /\ pc[p] = "PostEvent"
  /\ LET me == inv[p]
         trucks == me.found[me.i + 1].Events[me.j + 1]
         go == seekEvent(me.found, me.i, me.j + 1)
     IN  /\ Emit(<<Post(p, me.channel, MsgEventTitle,
                        [n \in 1..Len(trucks) |-> attachment(trucks[n])])>>)
         /\ Goto(p, go.pc)
         /\ inv' = [inv EXCEPT ![p] = [me EXCEPT !.i = go.i, !.j = go.j]]
  /\ UNCHANGED <<config, out>>

\* ------------------------------------------------------- specification
\* The values of LOCATION_IDS.
LocationConfigs ==
  {<<>>, s_123, s_123 \o s_comma \o s_456, s_123 \o s_comma}

\* A variant of startJob that starts the cron job when the locations are set.
startJob_locationsOnly(locs, tok, ch) == Len(locs) > 0

\* startJob: the cron job starts when all three values are set.
startJob(locs, tok, ch) == Len(locs) > 0 /\ Len(tok) > 0 /\ Len(ch) > 0

\* The state after init and main. LOCATION_IDS and CHANNEL are read by the
\* find-events revision alone.
Init ==
  /\ rev \in Revs
  /\ token \in IF rev = "events" THEN {s_tok, <<>>} ELSE {s_tok}
  /\ channel \in IF rev = "events" THEN {s_C1, <<>>} ELSE {<<>>}
  /\ locations \in IF rev = "events" THEN LocationConfigs ELSE {<<>>}
  /\ cronStarted = (rev = "events" /\ startJob(locations, token, channel))
  /\ now \in {Date(2019, 12, 31)}
  /\ pc = [p \in Procs |-> "idle"]
  /\ inv = [p \in Procs |-> idleInv]
  /\ trace = <<>>
  /\ out = NoCall

\* No invocation has been started.
Quiet == \A p \in Procs : pc[p] = "idle"

\* One request or one tick is delivered, and the invocation it starts runs.
Next ==
  \/ Quiet /\ \E req \in Requests : HomeHandler("w1", req)
  \/ Quiet /\ Tick("cron")
  \/ \E p \in Procs : Respond(p)
  \/ \E p \in Procs : GetLocationStep(p)
  \/ \E p \in Procs : GetEventsStep(p)
  \/ \E p \in Procs : GetTruckStep(p)
  \/ \E p \in Procs : PostBlocks(p)
  \/ \E p \in Procs : GetLocationPkgStep(p)
  \/ \E p \in Procs : GetNeighborhoodStep(p)
  \/ \E p \in Procs : FindTrucksStep(p)
  \/ \E p \in Procs : PostEvent(p)

Spec == Init /\ [][Next]_vars

\* -------------------------------------------------- the food categories
\* emojiMapping: the category labels and what each maps to, as the pairs of
\* the map literal.
emojiMapping ==
  << <<"BBQ", ":cut_of_meat:">>,
     <<"Beverage", ":cup_with_straw:">>,
     <<"Burgers", ":hamburger:">>,
     <<"Indian", ":flag-in:">>,
     <<"Vegetarian", ":green_salad:">>,
     <<"Vegan", ":seedling:">>,
     <<"Native American", ":earth_americas:">>,
     <<"Asian", ":earth_asia:">>,
     <<"Hawaiian", ":pineapple:">>,
     <<"Seafood", ":crab:">>,
     <<"Sandwiches", ":sandwich:">>,
     <<"Italian", ":spaghetti:">>,
     <<"Pizza", ":pizza:">>,
     <<"Mexican", ":taco:">>,
     <<"Tacos", ":taco:">>,
     <<"Burritos", ":burrito:">>,
     <<"Wraps", ":burrito:">>,
     <<"Sushi", ":sushi:">>,
     <<"Japanese", ":japan:">>,
     <<"Latin American", ":earth_americas:">>,
     <<"Breakfast", ":fried_egg:">>,
     <<"American", ":flag-us:">>,
     <<"Southern", ":face_with_cowboy_hat:">>,
     <<"Caribbean", ":palm_tree:">>,
     <<"Central Asian", ":earth_asia:">>,
     <<"Coffee", ":coffee:">>,
     <<"Dessert", ":ice_cream:">>,
     <<"Ethiopian", ":flag-et:">>,
     <<"European", ":earth_africa:">>,
     <<"French", ":flag-fr:">>,
     <<"Global", ":globe_with_meridians:">>,
     <<"Halal", "(the word halal in Arabic script)">>,
     <<"Hot Dogs", ":hotdog:">>,
     <<"Mediterranean", ":stuffed_flatbread:">>,
     <<"Middle Eastern", ":stuffed_flatbread:">> >>

\* emojiMapping[fc]: the value under the label, the empty string without it.
emojiOf(fc) ==
  IF \E n \in DOMAIN emojiMapping : emojiMapping[n][1] = fc
  THEN emojiMapping[CHOOSE n \in DOMAIN emojiMapping : emojiMapping[n][1] = fc][2]
  ELSE ""

\* A variant of the loop over the categories that leaves out the categories
\* without an emoji.
RECURSIVE categoryText_mappedOnly(_)
categoryText_mappedOnly(fcs) ==
  IF fcs = <<>> THEN <<>>
  ELSE (IF emojiOf(Head(fcs)) = "" THEN <<>>
        ELSE <<emojiOf(Head(fcs)), " ", Head(fcs), "\n">>)
       \o categoryText_mappedOnly(Tail(fcs))

\* The loop of postEvents over b.Truck.FoodCategories: what it writes to the
\* text of the detail block, piece by piece ("%s %s\n" for each category).
RECURSIVE categoryText(_)
categoryText(fcs) ==
  IF fcs = <<>> THEN <<>>
  ELSE <<emojiOf(Head(fcs)), " ", Head(fcs), "\n">> \o categoryText(Tail(fcs))

\* The category labels of a booking: labels of the table, one of them in
\* another case, and one the table does not have.
CategoryLabels == {"BBQ", "bbq", "Tacos", "Mexican", "Fusion"}
CategoryLists == SeqsUpTo(CategoryLabels, MaxCategories)

\* The text of the categories of one booking.
CallCategoryText(fcs) ==
  /\ out' = [fn |-> "categoryText", fcs |-> fcs, r |-> categoryText(fcs)]
  /\ UNCHANGED <<config, pc, inv, trace>>

\* ------------------------------------------------------------ getRating
\* A rating is a float64. The model holds the decimals of one digit as their
\* count of tenths (kind "dec"), the float64 values just below 0.5 as their
\* distance from 0.5 in units of 2^-54, the spacing of float64 there (kind
\* "belowHalf"), and by name the values no int holds: a finite value above
\* the largest int ("huge") or below the smallest ("negHuge"), the infinities
\* and NaN.
Dec(t) == [kind |-> "dec", tenths |-> t, ulps |-> 0]
BelowHalf(k) == [kind |-> "belowHalf", tenths |-> 0, ulps |-> k]
Special(k) == [kind |-> k, tenths |-> 0, ulps |-> 0]
DecRatings == {Dec(t) : t \in -12..62}
BelowHalfRatings == {BelowHalf(k) : k \in 1..4}
SpecialRatings == {Special(k) : k \in {"huge", "negHuge", "inf", "negInf", "nan"}}
Ratings == DecRatings \cup BelowHalfRatings \cup SpecialRatings

\* What the conversion to int gives for a value no int holds: Go leaves it to
\* the implementation. The smallest int on amd64 whatever the value; where the
\* conversion saturates, the largest or the smallest int, and 0 for NaN.
ConversionOutcomes(rating) ==
  CASE rating.kind \in {"huge", "inf"} -> {0 - 2147483647, 2147483647}
    [] rating.kind \in {"negHuge", "negInf"} -> {0 - 2147483647}
    [] rating.kind = "nan" -> {0 - 2147483647, 0}
    [] OTHER -> {0}

\* The conversion of a count of tenths to int: the fraction is cut off.
Truncate(tenths) == IF tenths >= 0 THEN tenths \div 10 ELSE -((-tenths) \div 10)

\* The float64 sum (0.5 - k * 2^-54) + 0.5, as its distance below 1 in units
\* of 2^-54. The float64 values just below 1 are 2^-53 apart, the even
\* distances; an odd distance lies halfway between two of them and is rounded
\* to the one of even mantissa 2^53 - d/2, that is of even d/2.
SumWithHalf(k) ==
  IF k % 2 = 0 THEN k
  ELSE IF ((k - 1) \div 2) % 2 = 0 THEN k - 1 ELSE k + 1

\* round: int(num + math.Copysign(0.5, num)).
round(rating, conv) ==
  CASE rating.kind = "dec" ->
         Truncate(IF rating.tenths >= 0 THEN rating.tenths + 5 ELSE rating.tenths - 5)
    [] rating.kind = "belowHalf" -> IF SumWithHalf(rating.ulps) = 0 THEN 1 ELSE 0
    [] OTHER -> conv

blackStar == "filled"
whiteStar == "empty"

\* getRating: five glyphs, the i-th filled when i <= round(rating).
getRating(rating, conv) ==
  LET r == round(rating, conv)
  IN  [i \in 1..5 |-> IF i <= r THEN blackStar ELSE whiteStar]

\* ------------------------------------- the clients and the parsers alone
Clients == {"callAPI", "inline"}
CallIDs == {<<>>, s_123}
DayTokens == {<<>>, today, tomorrow, s_Tomorrow, ToLower(s_Tomorrow) \o s_sp, s_friday}
CallEvents == {<<>>, <<<<s_t1>>>>}

\* The messages handed to parseTokensFromMsg: the mention texts as respond
\* strips them, and prefixes of them.
ParserInputs ==
  {stripMention(t) : t \in Texts}
  \cup {SubSeq(s_sp \o findEventsCmd, 1, n) : n \in 0..3}
  \cup {s_sp \o Words(<<s_find, s_trucks, s_at, s_slu, s_friday>>),
        s_sp \o Words(<<s_find, s_trucks, s_at, s_slu, s_dt, s_friday>>)}

\* GetEvents called with a location id and a day token.
ClientGetEvents(client, id, on, http, body) ==
  /\ out' = [fn |-> "GetEvents", client |-> client, id |-> id, on |-> on,
             http |-> http, now |-> now,
             r |-> IF client = "callAPI" THEN GetEvents(id, on, now, http, body)
                   ELSE GetEventsInline(id, on, now, http, body)]
  /\ UNCHANGED <<config, pc, inv, trace>>

\* GetLocation called with a location id.
ClientGetLocation(client, id, http) ==
  /\ out' = [fn |-> "GetLocation", client |-> client, id |-> id, on |-> <<>>,
             http |-> http, now |-> now,
             r |-> NoDay(IF client = "callAPI" THEN GetLocation(id, http, LocationBody(id))
                         ELSE GetLocationInline(id, http, LocationBody(id)))]
  /\ UNCHANGED <<config, pc, inv, trace>>

\* GetTruck called with a truck id; the client that goes through callAPI
\* alone has it.
ClientGetTruck(id, http) ==
  /\ out' = [fn |-> "GetTruck", client |-> "callAPI", id |-> id, on |-> <<>>,
             http |-> http, now |-> now,
             r |-> NoDay(GetTruck(id, http, TruckBody))]
  /\ UNCHANGED <<config, pc, inv, trace>>

\* pkg.API.FindTrucks called with one location id and a day token.
ClientFindTrucks(id, on, http, body) ==
  /\ out' = [fn |-> "FindTrucks", client |-> "pkg", id |-> id, on |-> on,
             http |-> http, now |-> now,
             r |-> FindTrucks(s_n7, <<id>>, on, now, http, body)]
  /\ UNCHANGED <<config, pc, inv, trace>>

\* The location ids a caller asks FindTrucks for, and the ids in the answers
\* of the locations API: in either case, with capitals and with spaces around.
AskedIDs == {s_slu, s_SLU, s_sp \o s_dt, s_456}
AnsweredIDs == {s_slu, s_SLU, s_dt \o s_sp}

AskedLists == SeqsUpTo(AskedIDs, MaxAsked)

AnsweredLocations ==
  {[ID |-> id, Name |-> ToLower(id), NeighborhoodID |-> 7, Events |-> <<>>] :
     id \in AnsweredIDs}

AnsweredLists == SeqsUpTo(AnsweredLocations, MaxAnswered)

\* pkg.API.FindTrucks called with a list of location ids.
ClientFindTrucksAll(ids, http, body) ==
  /\ out' = [fn |-> "FindTrucksAll", client |-> "pkg", ids |-> ids,
             http |-> http, body |-> body,
             r |-> FindTrucks(s_n7, ids, today, now, http, body)]
  /\ UNCHANGED <<config, pc, inv, trace>>

\* getRating called with a rating; conv is what the conversion to int gives
\* when no int holds the sum.
CallGetRating(rating, conv) ==
  /\ out' = [fn |-> "getRating", rating |-> rating, conv |-> conv,
             r |-> getRating(rating, conv)]
  /\ UNCHANGED <<config, pc, inv, trace>>

\* parseTokensFromMsg of one revision called with a message.
ParserCall(revision, msg) ==
  /\ out' = [fn |-> "parseTokensFromMsg", client |-> revision, msg |-> msg,
             r |-> CASE revision = "events" -> parseTokensFromMsgFor(msg)
                     [] revision = "at" -> parseTokensFromMsgAt(msg)
                     [] OTHER -> parseTokensFromMsgAtIn(msg)]
  /\ UNCHANGED <<config, pc, inv, trace>>

InitCalls ==
  /\ rev = "events"
  /\ token = s_tok
  /\ channel = s_C1
  /\ locations = s_123
  /\ cronStarted = startJob(locations, token, channel)
  /\ now \in Dates
  /\ pc = [p \in Procs |-> "idle"]
  /\ inv = [p \in Procs |-> idleInv]
  /\ trace = <<>>
  /\ out = NoCall

\* No direct call has been made.
Fresh == out = NoCall

NextCalls ==
  \/ Fresh /\ \E c \in Clients, id \in CallIDs, on \in DayTokens, http \in HttpOutcomes,
        body \in CallEvents : ClientGetEvents(c, id, on, http, body)
  \/ Fresh /\ \E c \in Clients, id \in CallIDs, http \in HttpOutcomes :
        ClientGetLocation(c, id, http)
  \/ Fresh /\ \E id \in {<<>>, s_t1}, http \in HttpOutcomes : ClientGetTruck(id, http)
  \/ Fresh /\ \E id \in {s_slu, s_SLU}, on \in DayTokens, http \in HttpOutcomes,
        body \in {<<>>, <<[ID |-> s_slu, Name |-> s_slu, NeighborhoodID |-> 7,
                          Events |-> <<<<s_t1>>>>]>>} :
        ClientFindTrucks(id, on, http, body)
  \/ Fresh /\ \E revision \in {"events", "at", "atin"}, msg \in ParserInputs :
        ParserCall(revision, msg)
  \/ Fresh /\ \E rating \in Ratings : \E conv \in ConversionOutcomes(rating) :
        CallGetRating(rating, conv)
  \/ Fresh /\ \E ids \in AskedLists, http \in HttpOutcomes, body \in AnsweredLists :
        ClientFindTrucksAll(ids, http, body)
  \/ Fresh /\ \E fcs \in CategoryLists : CallCategoryText(fcs)

SpecCalls == InitCalls /\ [][NextCalls]_vars

\* ------------------------------------------- invocations that interleave
\* The mentions delivered while a tick may be running.
TextsConc ==
  { Mention(<<s_help>>),
    Mention(<<s_hello>>),
    Mention(<<s_find, s_events>>),
    Mention(<<s_find, s_events, s_for, s_tomorrow>>) }

RequestsConc ==
  {[method |-> "post", kind |-> "event_callback", inner |-> "app_mention", text |-> t] :
     t \in TextsConc}

\* The state after init, main and startJob of the find-events revision, with
\* the cron job started.
InitConc ==
  /\ rev = "events"
  /\ token = s_tok
  /\ channel = s_C1
  /\ locations = s_123
  /\ cronStarted = startJob(locations, token, channel)
  /\ now = Date(2019, 12, 31)
  /\ pc = [p \in Procs |-> "idle"]
  /\ inv = [p \in Procs |-> idleInv]
  /\ trace = <<>>
  /\ out = NoCall

\* The events API answers with at most one event of at most one booking
\* while two invocations run.
AnswersConc ==
  \A p \in Procs :
    /\ Len(inv[p].events) <= 1
    /\ \A j \in DOMAIN inv[p].events : Len(inv[p].events[j]) <= 1

\* The goroutine of a mention (go respond(ev)) and the goroutine of a tick
\* run side by side: any of them takes the next step.
NextConc ==
  \/ \E req \in RequestsConc : HomeHandler("w1", req)
  \/ Tick("cron")
  \/ \E p \in Procs : Respond(p)
  \/ \E p \in Procs : GetLocationStep(p)
  \/ (\E p \in Procs : GetEventsStep(p)) /\ AnswersConc'
  \/ \E p \in Procs : GetTruckStep(p)
  \/ \E p \in Procs : PostBlocks(p)

SpecConc == InitConc /\ [][NextConc]_vars

\* ---------------------------------- two invocations over two locations
\* The state after init, main and startJob with two configured locations.
InitOrder ==
  /\ rev = "events"
  /\ token = s_tok
  /\ channel = s_C1
  /\ locations = s_123 \o s_comma \o s_456
  /\ cronStarted = startJob(locations, token, channel)
  /\ now = Date(2019, 12, 31)
  /\ pc = [p \in Procs |-> "idle"]
  /\ inv = [p \in Procs |-> idleInv]
  /\ trace = <<>>
  /\ out = NoCall

\* The service answers every call, knows every location, and a location has
\* no event or one event without bookings.
AnswersOrder ==
  /\ \A n \in DOMAIN trace : ~trace[n].err
  /\ \A p \in Procs :
       /\ pc[p] = "GetEvents" => inv[p].location # zeroLocation
       /\ inv[p].events \in {<<>>, << <<>> >>}

\* A find-events mention and a tick side by side.
NextOrder ==
  \/ HomeHandler("w1", [method |-> "post", kind |-> "event_callback",
                        inner |-> "app_mention",
                        text |-> Mention(<<s_find, s_events, s_for, s_tomorrow>>)])
  \/ Tick("cron")
  \/ \E p \in Procs : Respond(p)
  \/ (\E p \in Procs : GetLocationStep(p)) /\ AnswersOrder'
  \/ (\E p \in Procs : GetEventsStep(p)) /\ AnswersOrder'
  \/ \E p \in Procs : PostBlocks(p)

SpecOrder == InitOrder /\ [][NextOrder]_vars

\* ------------------------------------------------------------- readings
IsPost(e) == e.op = "PostMessage"
IsCall(e) == e.op # "PostMessage"

\* The entries of the trace that invocation p made, in order.
TraceOf(p) == SelectSeq(trace, LAMBDA e : e.p = p)
PostsOf(p) == SelectSeq(trace, LAMBDA e : e.p = p /\ IsPost(e))
CallsOf(p) == SelectSeq(trace, LAMBDA e : e.p = p /\ IsCall(e))

\* respond has dispatched invocation p on a command.
Dispatched(p) == p # "cron" /\ pc[p] \notin {"idle", "respond", "panic"} /\ inv[p].text # <<>>

\* The connective and the parser of a revision.
Connective(r) == IF r = "events" THEN s_sp \o s_for ELSE s_sp \o s_at

ParserOf(r, msg) ==
  CASE r = "events" ->
         parseTokensFromMsgFor(msg) @@ [loc |-> <<>>, hood |-> <<>>, at |-> <<>>]
    [] r = "at" -> parseTokensFromMsgAt(msg) @@ [day |-> <<>>]
    [] OTHER -> parseTokensFromMsgAtIn(msg) @@ [day |-> <<>>]

NoArguments(r) == r.day = <<>> /\ r.loc = <<>> /\ r.hood = <<>> /\ r.at = <<>>

\* C1 (as claimed): for a mention text with no connective (" for" in the
\* find-events revision, " at" in the find-trucks revisions), the parser
\* returns the whole trimmed text as the command with no arguments, and respond
\* dispatches on the whole trimmed text with no arguments, for "find events"
\* without " for" as for any other text.
C1_NoConnectiveWholeCommand ==
  \A p \in Procs :
    (Dispatched(p) /\ rev \in {"events", "at", "atin"}) =>
      LET msg == stripMention(inv[p].text)
          r == ParserOf(rev, msg)
      IN  (~Contains(msg, Connective(rev)) /\ Len(msg) > 0) =>
            /\ ~r.panic /\ ~r.err
            /\ r.cmd = TrimSpace(msg)
            /\ NoArguments(r)
            /\ inv[p].cmd = TrimSpace(msg)
            /\ inv[p].day = <<>> /\ inv[p].loc = <<>> /\ inv[p].hood = <<>>

\* The messages a failed lookup is answered with.
TroubleTexts ==
  {MsgLocationTrouble, MsgEventsTrouble, MsgLocationIssue, MsgNeighborhoodIssue}

FailedGetLocation(e) == e.op = "GetLocation" /\ e.err

\* C2 (as claimed): when GetLocation returns an error, the invocation as a
\* whole makes exactly one post, and no Domain Client call follows the failed
\* one.
C2_LocationFailureOnePost ==
  \A p \in Procs :
    LET t == TraceOf(p)
    IN  \A n \in 1..Len(t) :
          FailedGetLocation(t[n]) =>
            /\ Len(PostsOf(p)) = 1
            /\ \A m \in (n + 1)..Len(t) : ~IsCall(t[m])

\* C2 (amended): a failed GetLocation is answered by exactly one failure post,
\* which ends the invocation: no Domain Client call and no post follows it, and
\* every other post of the invocation is the block message of a location
\* handled before the failed call.
C2_LocationFailureStops ==
  \A p \in Procs :
    LET t == TraceOf(p)
    IN  \A n \in 1..Len(t) :
          FailedGetLocation(t[n]) =>
            /\ Len(t) = n + 1
            /\ IsPost(t[n + 1]) /\ t[n + 1].text \in TroubleTexts
            /\ t[n + 1].blocks = <<>>
            /\ \A m \in 1..(n - 1) :
                 IsPost(t[m]) => t[m].text = MsgBlocks /\ t[m].blocks # <<>>
            /\ pc[p] = "done"

\* C2 witness: a GetLocation failed after the block message of an earlier
\* location was posted.
C2_Witness ==
  \E p \in Procs :
    LET t == TraceOf(p)
    IN  /\ pc[p] = "done"
        /\ \E n \in 2..Len(t) : FailedGetLocation(t[n]) /\ Len(PostsOf(p)) = 2

\* C3 (as claimed): an event with no booking gets no header and no detail:
\* no block message holds the header of an event of zero trucks, and no event
\* post goes out without an attachment.
C3_NoSectionForEmptyEvent ==
  \A n \in 1..Len(trace) :
    IsPost(trace[n]) =>
      /\ \A b \in 1..Len(trace[n].blocks) :
           trace[n].blocks[b].role = "event" => trace[n].blocks[b].n > 0
      /\ trace[n].text = MsgEventTitle => trace[n].blocks # <<>>

\* Whether some post of p shows a booking.
ShowsBooking(p) ==
  \E n \in 1..Len(trace) :
    /\ trace[n].p = p /\ IsPost(trace[n])
    /\ \E b \in 1..Len(trace[n].blocks) :
         trace[n].blocks[b].role \in {"booking", "truck"}

\* Invocation p ran the find flow to its end with every lookup succeeding.
FoundAllOK(p) ==
  /\ pc[p] = "done"
  /\ CallsOf(p) # <<>>
  /\ \A n \in 1..Len(CallsOf(p)) : ~CallsOf(p)[n].err

\* C4 (as claimed): when every lookup succeeds and no location yields an event
\* with bookings, the invocation makes exactly one post, a "no results"
\* message that shows no header.
C4_NoResultsSection ==
  \A p \in Procs :
    (FoundAllOK(p) /\ ~ShowsBooking(p)) =>
      /\ Len(PostsOf(p)) = 1
      /\ PostsOf(p)[1].blocks = <<>>
      /\ PostsOf(p)[1].text \notin TroubleTexts

\* Invocation p is a find request whose required argument is missing.
MissingInput(p) ==
  /\ pc[p] \notin {"idle", "respond", "panic"}
  /\ \/ rev \in {"at", "atin"} /\ inv[p].cmd = findTrucksCmd /\ Len(inv[p].loc) = 0
     \/ rev = "events" /\ Len(locations) = 0
          /\ (p = "cron" \/ inv[p].cmd = findEventsCmd)

\* C5 (as claimed): a find request with a missing argument makes no Domain
\* Client call and posts exactly the dedicated message.
C5_MissingInputShortCircuits ==
  \A p \in Procs :
    MissingInput(p) =>
      /\ CallsOf(p) = <<>>
      /\ pc[p] = "done" =>
            /\ Len(PostsOf(p)) = 1
            /\ PostsOf(p)[1].text =
                 IF rev = "events" THEN MsgLocationsNotSet ELSE MsgRequired
\* The roles of the blocks of a message, in order.
Roles(blocks) == [b \in 1..Len(blocks) |-> blocks[b].role]

\* The scenario of C6: "<@BOT> find events for tomorrow", LOCATION_IDS "123",
\* GetLocation("123") answered, GetEvents answered with one event of two
\* bookings, and the invocation run to its end.
C6_Scenario(p) ==
  /\ rev = "events" /\ locations = s_123
  /\ inv[p].text = Mention(<<s_find, s_events, s_for, s_tomorrow>>)
  /\ pc[p] = "done"
  /\ inv[p].location = LocationBody(s_123)
  /\ Len(inv[p].events) = 1 /\ Len(inv[p].events[1]) = 2
  /\ \E n \in 1..Len(trace) :
       /\ trace[n].op = "GetEvents" /\ trace[n].arg = s_123
       /\ trace[n].onDay = FormatDate(AddDay(now))

ServiceTrouble == IF rev = "events" THEN MsgLocationTrouble ELSE MsgLocationIssue

\* C8 (as claimed): whichever lookup returns an error, the invocation stops
\* there with one and the same message: the failed call is directly followed
\* by the post of that message, and nothing follows the post.
C8_SameTroubleSection ==
  \A p \in Procs :
    LET t == TraceOf(p)
    IN  \A n \in 1..Len(t) :
          (IsCall(t[n]) /\ t[n].err) =>
            /\ Len(t) = n + 1
            /\ IsPost(t[n + 1])
            /\ t[n + 1].text = ServiceTrouble
\* The transport failures C9 names: the request cannot be built, client.Do
\* fails, or the body cannot be decoded.
NamedTransportFailures == {"requestErr", "doErr", "undecodable"}

\* C9 (as claimed): GetLocation, GetEvents and GetTruck, called with an id,
\* return an error whenever the HTTP call under them fails in transport.
C9_TransportFailureIsError ==
  (/\ out.fn \in {"GetLocation", "GetEvents", "GetTruck"}
   /\ Len(out.id) > 0
   /\ out.http \in NamedTransportFailures)
    => out.r.err

\* The day that the method of call o resolves for the token on.
ResolvedFor(o, on) ==
  CASE o.fn = "FindTrucks" -> FindTrucks(s_n7, <<o.id>>, on, o.now, o.http, <<>>).onDay
    [] o.client = "callAPI" -> GetEvents(o.id, on, o.now, o.http, <<>>).onDay
    [] OTHER -> GetEventsInline(o.id, on, o.now, o.http, <<>>).onDay

\* A call of GetEvents or FindTrucks that went as far as resolving the day.
ResolvedDay == out.fn \in {"GetEvents", "FindTrucks"} /\ Len(out.id) > 0

\* C10: GetEvents and FindTrucks resolve every day token other than "today"
\* and "tomorrow" (the empty token and "Tomorrow" among them) to the date they
\* resolve for "today", which is the current date; the token "tomorrow" and
\* no other resolves to the current date plus one day.
C10_OtherTokensAreToday ==
  ResolvedDay =>
    /\ out.on \notin {today, tomorrow} => out.r.onDay = ResolvedFor(out, today)
    /\ ResolvedFor(out, today) = FormatDate(out.now)
    /\ out.r.onDay = FormatDate(AddDay(out.now)) <=> out.on = tomorrow

\* C10 witness: the token "Tomorrow" was resolved to the current date, on the
\* last day of a year.
C10_Witness ==
  /\ ResolvedDay
  /\ out.on = s_Tomorrow
  /\ out.now = Date(2019, 12, 31)
  /\ out.r.onDay = FormatDate(out.now)
\* The number of filled glyphs of a rendering, and the rating as a number of
\* the order of the ratings (NaN has no place in it).
Filled(stars) == Cardinality({i \in 1..Len(stars) : stars[i] = blackStar})

Clamp(n) == IF n < 0 THEN 0 ELSE IF n > 5 THEN 5 ELSE n

Rank(rating) ==
  CASE rating.kind = "dec" -> 100 * rating.tenths
    [] rating.kind = "belowHalf" -> 500 - rating.ulps
    [] rating.kind = "huge" -> 100000
    [] rating.kind = "inf" -> 100001
    [] rating.kind = "negHuge" -> 0 - 100000
    [] OTHER -> 0 - 100001

\* The nearest integer of a rating, halves away from zero, clamped to 0..5.
NearestClamped(rating) ==
  CASE rating.kind = "dec" ->
         Clamp(IF rating.tenths >= 0 THEN (rating.tenths + 5) \div 10
               ELSE -((5 - rating.tenths) \div 10))
    [] rating.kind \in {"huge", "inf"} -> 5
    [] OTHER -> 0

\* C11 (as claimed): getRating renders exactly five glyphs, the filled ones
\* first; their number is the rating rounded to the nearest integer, halves
\* away from zero, clamped to 0..5; no smaller rating gets more filled glyphs
\* under any outcome of the conversion; 4.6 gives 5 filled, 4.4 gives 4, 0.0
\* gives 0 and 5.0 gives 5.
C11_StarsRoundedAndMonotonic ==
  out.fn = "getRating" =>
    /\ Len(out.r) = 5
    /\ \A i \in 1..4 : out.r[i] = whiteStar => out.r[i + 1] = whiteStar
    /\ out.rating.kind # "nan" =>
         /\ Filled(out.r) = NearestClamped(out.rating)
         /\ \A lower \in Ratings \ {Special("nan")} :
            \A conv \in ConversionOutcomes(lower) :
              Rank(lower) <= Rank(out.rating) =>
                Filled(getRating(lower, conv)) <= Filled(out.r)
    /\ out.rating = Dec(46) => Filled(out.r) = 5
    /\ out.rating = Dec(44) => Filled(out.r) = 4
    /\ out.rating = Dec(0) => Filled(out.r) = 0
    /\ out.rating = Dec(50) => Filled(out.r) = 5
\* C12: parseTokensFromMsg of every revision, called with a message of length
\* zero, returns an error with an empty command and empty arguments, and does
\* not panic.
C12_EmptyMessageIsError ==
  (out.fn = "parseTokensFromMsg" /\ Len(out.msg) = 0) =>
    /\ out.r.err
    /\ ~out.r.panic
    /\ \A f \in DOMAIN out.r \ {"err", "panic"} : out.r[f] = <<>>

\* C12 witness: the find-events parser was called with the empty message and
\* returned its error.
C12_Witness ==
  /\ out.fn = "parseTokensFromMsg" /\ out.client = "events"
  /\ out.msg = <<>>
  /\ out.r.err
\* The find keyword of the revision; the help-only revision has none.
FindCmds == CASE rev = "events" -> {findEventsCmd}
              [] rev \in {"at", "atin"} -> {findTrucksCmd}
              [] OTHER -> {}

\* respond dispatched invocation p on a command that is neither keyword.
Unrecognized(p) == Dispatched(p) /\ inv[p].cmd \notin {helpCmd} \cup FindCmds

\* C13 (as claimed): when the trimmed command is neither the help keyword nor
\* the find keyword, respond makes no Domain Client call and posts exactly one
\* message, the static "cannot help" text, to the channel of the event.
C13_UnrecognizedCannotHelp ==
  \A p \in Procs :
    Unrecognized(p) =>
      /\ CallsOf(p) = <<>>
      /\ Len(PostsOf(p)) = 1
      /\ PostsOf(p)[1].text = MsgCannotHelp
      /\ PostsOf(p)[1].channel = s_C9
\* respond dispatched invocation p on the help command.
HelpAsked(p) == p # "cron" /\ pc[p] \notin {"idle", "respond"} /\ inv[p].cmd = helpCmd

\* C14 (as claimed): for the help command respond makes no Domain Client call
\* and posts exactly one message to the channel of the event: the list of the
\* commands, with a footer that carries the time.
C14_HelpOnePostWithTimestamp ==
  \A p \in Procs :
    HelpAsked(p) =>
      /\ CallsOf(p) = <<>>
      /\ Len(PostsOf(p)) = 1
      /\ PostsOf(p)[1].channel = s_C9
      /\ PostsOf(p)[1].text \in {MsgHelp, MsgHelpOnly}
      /\ Roles(PostsOf(p)[1].blocks) = <<"commands">>
      /\ Contains(PostsOf(p)[1].blocks[1].ref, FormatDate(now))
\* The arguments of the calls of one method in a trace, in order, and the
\* number of detail sections in a sequence of blocks.
ArgsOf(t, op) ==
  LET calls == SelectSeq(t, LAMBDA e : e.op = op)
  IN  [n \in 1..Len(calls) |-> calls[n].arg]

IsPrefix(a, b) == Len(a) <= Len(b) /\ \A n \in 1..Len(a) : a[n] = b[n]

Details(blocks) == Cardinality({b \in 1..Len(blocks) : blocks[b].role = "booking"})

RECURSIVE DetailsPosted(_)
DetailsPosted(posts) ==
  IF posts = <<>> THEN 0
  ELSE Details(Head(posts).blocks) + DetailsPosted(Tail(posts))

\* C15: no lookup is made twice. In postEvents the GetLocation calls and the
\* GetEvents calls each go through the configured ids once, in order, and
\* there is one GetTruck call for each detail section rendered; in findTrucks
\* there is at most one GetLocation, one GetNeighborhood and one FindTrucks
\* call; and a failure message is the last entry of the invocation's trace.
C15_NoRetry ==
  \A p \in Procs :
    LET t == TraceOf(p)
    IN  /\ rev = "events" =>
             /\ IsPrefix(ArgsOf(t, "GetLocation"), inv[p].forLocations)
             /\ IsPrefix(ArgsOf(t, "GetEvents"), ArgsOf(t, "GetLocation"))
             /\ Len(ArgsOf(t, "GetTruck"))
                  = DetailsPosted(PostsOf(p))
                    + (IF pc[p] \in {"GetTruck", "PostMessage"}
                       THEN Details(inv[p].msg) ELSE 0)
        /\ rev # "events" =>
             \A op \in {"GetLocation", "GetNeighborhood", "FindTrucks"} :
               Len(ArgsOf(t, op)) <= 1
        /\ \A n \in 1..Len(t) :
             (IsPost(t[n]) /\ t[n].text \in TroubleTexts) => n = Len(t)

\* C15 witness: an invocation went through two configured locations, made a
\* GetTruck call and ended.
C15_Witness ==
  \E p \in Procs :
    /\ pc[p] = "done"
    /\ Len(ArgsOf(TraceOf(p), "GetLocation")) = 2
    /\ Len(ArgsOf(TraceOf(p), "GetEvents")) = 2
    /\ Len(ArgsOf(TraceOf(p), "GetTruck")) >= 1
\* The methods called in a trace, in order.
OpsOf(t) == LET calls == SelectSeq(t, IsCall) IN [n \in 1..Len(calls) |-> calls[n].op]

\* Some call of the method op precedes entry n of t and returned no error.
SucceededBefore(t, n, op) == \E m \in 1..(n - 1) : t[m].op = op /\ ~t[m].err

\* A failed GetNeighborhood at entry n of t is answered with one message and
\* nothing else.
NeighborhoodFailureStops(p, t, n) ==
  (t[n].op = "GetNeighborhood" /\ t[n].err) =>
    /\ Len(t) = n + 1
    /\ IsPost(t[n + 1]) /\ t[n + 1].text = MsgNeighborhoodIssue
    /\ Len(PostsOf(p)) = 1

\* C16 (as claimed): in every find-trucks revision GetNeighborhood is called
\* only after a GetLocation that succeeded, FindTrucks only after both
\* succeeded, and a failed GetNeighborhood is answered with exactly one
\* message, after which the invocation stops.
C16_LocationNeighborhoodTrucks ==
  \A p \in Procs :
    rev \in {"at", "atin"} =>
      LET t == TraceOf(p)
      IN  \A n \in 1..Len(t) :
            /\ t[n].op = "GetNeighborhood" => SucceededBefore(t, n, "GetLocation")
            /\ t[n].op = "FindTrucks" =>
                 /\ SucceededBefore(t, n, "GetLocation")
                 /\ SucceededBefore(t, n, "GetNeighborhood")
            /\ NeighborhoodFailureStops(p, t, n)

\* C16 (amended): in the revision whose findTrucks takes the location alone
\* the calls are a prefix of GetLocation, GetNeighborhood, FindTrucks, each
\* made only when the one before returned no error, GetNeighborhood with the
\* neighborhood id of the location resolved, and a failed GetNeighborhood is
\* answered with exactly one message, after which the invocation stops. In
\* the revision where the mention names the neighborhood, FindTrucks is the
\* only call and is made at most once.
C16_OrderWhereNeighborhoodIsLookedUp ==
  \A p \in Procs :
    LET t == TraceOf(p)
    IN  /\ rev = "at" =>
             /\ IsPrefix(OpsOf(t), <<"GetLocation", "GetNeighborhood", "FindTrucks">>)
             /\ \A n \in 1..Len(t) :
                  /\ (IsCall(t[n]) /\ t[n].err) => \A m \in (n + 1)..Len(t) : ~IsCall(t[m])
                  /\ t[n].op = "GetNeighborhood" => t[n].arg = inv[p].location.NeighborhoodID
                  /\ NeighborhoodFailureStops(p, t, n)
        /\ rev = "atin" => IsPrefix(OpsOf(t), <<"FindTrucks">>)

\* C16 witness: findTrucks of the revision that looks the neighborhood up made
\* its three calls.
C16_Witness ==
  /\ rev = "at"
  /\ OpsOf(TraceOf("w1")) = <<"GetLocation", "GetNeighborhood", "FindTrucks">>
\* Entry e is a failed query for events: FindTrucks or GetEvents with an error.
FailedQuery(e) == e.op \in {"FindTrucks", "GetEvents"} /\ e.err

Shown(blocks) ==
  [b \in 1..Len(blocks) |->
     [role |-> blocks[b].role, ref |-> blocks[b].ref, n |-> blocks[b].n]]

\* The sections of the events in the order given: for each event its header,
\* stating the number of its bookings, then one detail section for each
\* booking, in the order of the bookings.
RECURSIVE EventSections(_)
EventSections(events) ==
  IF events = <<>> THEN <<>>
  ELSE LET e == Head(events)
       IN  <<[role |-> "event", ref |-> <<>>, n |-> Len(e)]>>
           \o [k \in 1..Len(e) |-> [role |-> "booking", ref |-> e[k], n |-> 0]]
           \o EventSections(Tail(events))

LocationSection(location) == [role |-> "location", ref |-> location.ID, n |-> 0]
DividerSection == [role |-> "divider", ref |-> <<>>, n |-> 0]

\* The step of invocation p that posts the message of a location.
PostsLocation(p) == pc[p] = "PostMessage" /\ pc'[p] # "PostMessage"

Acting(p) ==
  /\ \A q \in Procs \ {p} : pc'[q] = pc[q] /\ inv'[q] = inv[q]
  /\ IsPrefix(trace, trace')
  /\ \A n \in (Len(trace) + 1)..Len(trace') : trace'[n].p = p

\* What invocation p was started with: its channel and its day.
StartedOn(p) == IF p = "cron" THEN channel ELSE s_C9
StartedFor(p) ==
  IF p = "cron" THEN today
  ELSE parseTokensFromMsgFor(stripMention(inv[p].text)).day

OwnResult(p) ==
  \A n \in DOMAIN trace :
    trace[n].p = p =>
      /\ IsPost(trace[n]) => trace[n].channel = StartedOn(p)
      /\ trace[n].op \in {"GetLocation", "GetEvents"}
            => trace[n].arg \in {s_123, s_456}
                 /\ Contains(locations, trace[n].arg)
      /\ trace[n].op = "GetEvents" /\ ~trace[n].err
            => trace[n].onDay = onDayOf(StartedFor(p), now)

C19_NoSharedMutableState ==
  /\ [](\A p \in Procs : OwnResult(p))
  /\ [][/\ UNCHANGED <<token, channel, locations, cronStarted>>
        /\ \E p \in Procs : Acting(p)]_vars

\* A mention that asked for tomorrow's events and a tick, both past their
\* GetEvents call and neither finished, the tick having called first.
C19_Witness ==
  /\ pc["w1"] \in {"GetTruck", "PostMessage"}
  /\ pc["cron"] \in {"GetTruck", "PostMessage"}
  /\ inv["w1"].day = tomorrow
  /\ \E m, n \in DOMAIN trace :
       /\ m < n
       /\ trace[m].p = "cron" /\ trace[m].op = "GetEvents"
       /\ trace[n].p = "w1" /\ trace[n].op = "GetEvents"
       /\ trace[m].onDay # trace[n].onDay

\* Whether the webhook request of invocation p has its HTTP answer. The
\* find-events revision starts respond as a goroutine and writes the status in
\* the same run of the handler; the other revisions call respond(ev) in the
\* handler, whose answer goes out when the handler returns (a handler that
\* panics answers nothing).
Acknowledged(p) ==
  IF rev = "events" THEN pc[p] # "idle" ELSE pc[p] = "done"

\* C20: the webhook request of an app mention is acknowledged without
\* waiting for respond: whenever a mention has been handed to respond, its
\* request has its answer, however far respond has got.
C20_AcknowledgedWithoutWaiting ==
  \A p \in Procs \ {"cron"} : pc[p] # "idle" => Acknowledged(p)

\* C21: the cron job is started only when the configured location ids, the
\* token and the channel are all non-empty; a tick enters postEvents with the
\* configured channel and the day token "today" and with nothing else set,
\* posts on the configured channel only and asks for the events of today.
C21_TickRunsPostEventsForToday ==
  /\ cronStarted => Len(locations) > 0 /\ Len(token) > 0 /\ Len(channel) > 0
  /\ pc["cron"] # "idle" =>
       /\ cronStarted
       /\ inv["cron"].channel = channel
       /\ inv["cron"].day = today
       /\ inv["cron"].forLocations = Split(locations, s_comma)
       /\ inv["cron"].text = <<>> /\ inv["cron"].cmd = <<>>
       /\ inv["cron"].loc = <<>> /\ inv["cron"].hood = <<>>
  /\ \A n \in DOMAIN trace :
       trace[n].p = "cron" =>
         /\ IsPost(trace[n]) => trace[n].channel = channel
         /\ IsCall(trace[n]) => trace[n].op \in {"GetLocation", "GetEvents", "GetTruck"}
         /\ trace[n].op = "GetEvents" /\ ~trace[n].err
               => trace[n].onDay = FormatDate(now)

\* A tick that has posted the block message of a location.
C21_Witness ==
  /\ cronStarted
  /\ pc["cron"] = "done"
  /\ \E n \in DOMAIN trace :
       /\ trace[n].p = "cron" /\ IsPost(trace[n])
       /\ trace[n].channel = s_C1 /\ Len(trace[n].blocks) > 2

\* C22: postEvents posts one block message for each configured location
\* whose GetEvents call returned events, in the order of the configured
\* list; a location without events gets no post and the loop goes on to the
\* next location; and this holds of the entries of one invocation whatever
\* the steps of the other invocation between them.
EventsCalls(p) == SelectSeq(trace, LAMBDA e : e.p = p /\ e.op = "GetEvents")
WithEvents(p) == SelectSeq(EventsCalls(p), LAMBDA e : e.got > 0)
BlockPosts(p) ==
  SelectSeq(trace, LAMBDA e : e.p = p /\ IsPost(e) /\ e.text = MsgBlocks)

OnePostPerLocationWithEvents(p) ==
  /\ \A n \in DOMAIN EventsCalls(p) :
       EventsCalls(p)[n].arg = inv[p].forLocations[n]
  /\ Len(BlockPosts(p)) <= Len(WithEvents(p))
  /\ Len(WithEvents(p)) <= Len(BlockPosts(p)) + 1
  /\ pc[p] \in {"done", "GetLocation", "GetEvents"}
       => Len(BlockPosts(p)) = Len(WithEvents(p))
  /\ pc[p] \in {"GetTruck", "PostMessage"}
       => Len(WithEvents(p)) = Len(BlockPosts(p)) + 1
  /\ \A n \in DOMAIN BlockPosts(p) :
       /\ BlockPosts(p)[n].blocks[1].role = "location"
       /\ BlockPosts(p)[n].blocks[1].ref \in {WithEvents(p)[n].arg, zeroLocation.ID}
  /\ (/\ pc[p] = "done"
      /\ inv[p].forLocations # <<>>
      /\ \A n \in DOMAIN trace : trace[n].p = p => ~trace[n].err)
       => Len(EventsCalls(p)) = Len(inv[p].forLocations)

C22_OnePostPerLocationInOrder == \A p \in Procs : OnePostPerLocationWithEvents(p)

\* The mention found events at the second location only and the tick at the
\* first only; the tick's post lies between the mention's calls.
C22_Witness ==
  /\ pc["w1"] = "done" /\ pc["cron"] = "done"
  /\ Len(EventsCalls("w1")) = 2 /\ Len(EventsCalls("cron")) = 2
  /\ Len(BlockPosts("w1")) = 1 /\ BlockPosts("w1")[1].blocks[1].ref = s_456
  /\ Len(BlockPosts("cron")) = 1 /\ BlockPosts("cron")[1].blocks[1].ref = s_123
  /\ \E k, m, n \in DOMAIN trace :
       /\ k < m /\ m < n
       /\ trace[k].p = "w1" /\ trace[k].op = "GetEvents"
       /\ trace[m].p = "cron" /\ IsPost(trace[m])
       /\ trace[n].p = "w1" /\ IsPost(trace[n])

\* C23: pkg.API.FindTrucks returns, for each requested id in request order,
\* the first location of the answer whose id equals it once both are trimmed
\* and lower-cased, and nothing else: every location returned matches a
\* requested id, there is at most one per requested id, and none when no id
\* matches.
SameID(a, b) == ToLower(TrimSpace(a)) = ToLower(TrimSpace(b))

Matching(locs, id) == {k \in DOMAIN locs : SameID(locs[k].ID, id)}

FirstMatching(locs, id) ==
  IF Matching(locs, id) = {} THEN <<>>
  ELSE <<locs[CHOOSE k \in Matching(locs, id) : \A m \in Matching(locs, id) : k <= m]>>

RECURSIVE FirstMatchingEach(_, _)
FirstMatchingEach(locs, ids) ==
  IF ids = <<>> THEN <<>>
  ELSE FirstMatching(locs, Head(ids)) \o FirstMatchingEach(locs, Tail(ids))

C23_FirstMatchPerRequestedID ==
  (out.fn = "FindTrucksAll" /\ ~out.r.err) =>
    LET answered == IF out.http = "ok" THEN out.body ELSE <<>>
        found == out.r.val
    IN  /\ found = FirstMatchingEach(answered, out.ids)
        /\ \A n \in DOMAIN found :
             \E k \in DOMAIN out.ids : SameID(found[n].ID, out.ids[k])
        /\ Len(found) <= Len(out.ids)
        /\ (\A k \in DOMAIN out.ids : Matching(answered, out.ids[k]) = {})
             => found = <<>>

\* Asked for " dt" and then "SLU" of an answer that lists "slu", "SLU" and
\* "dt ": the result is the location "dt " and then the location "slu".
C23_Witness ==
  /\ out.fn = "FindTrucksAll" /\ ~out.r.err /\ out.http = "ok"
  /\ out.ids = <<s_sp \o s_dt, s_SLU>>
  /\ Len(out.body) = 3
  /\ out.body[1].ID = s_slu /\ out.body[2].ID = s_SLU /\ out.body[3].ID = s_dt \o s_sp
  /\ Len(out.r.val) = 2
  /\ out.r.val[1].ID = s_dt \o s_sp /\ out.r.val[2].ID = s_slu

\* C24: in the two-connective parser, when " at" and " in" are both present
\* the location is the text between them and the neighborhood the text after
\* " in", and the location, the neighborhood and the day are returned
\* trimmed of surrounding whitespace.
C24_ArgumentsBetweenAndTrimmed ==
  (/\ out.fn = "parseTokensFromMsg" /\ out.client = "atin"
   /\ ~out.r.panic /\ ~out.r.err) =>
    LET i == Index(out.msg, s_sp \o s_at)
        j == Index(out.msg, s_sp \o s_in)
    IN  /\ (i > 0 /\ j > 0) =>
             /\ TrimSpace(out.r.loc) = TrimSpace(Slice(out.msg, i + 3, j))
             /\ out.r.hood \o (IF out.r.at = <<>> THEN <<>> ELSE s_sp \o out.r.at)
                  = TrimSpace(Slice(out.msg, j + 3, Len(out.msg)))
        /\ out.r.loc = TrimSpace(out.r.loc)
        /\ out.r.hood = TrimSpace(out.r.hood)
        /\ out.r.at = TrimSpace(out.r.at)

\* C25: in the parser of " at <location> <day>", a trailing token that is
\* neither "today" nor "tomorrow" counts as no day and not as an error: the
\* location is the text before that token, the day resolves to today's date,
\* and no non-empty message makes the parser return an error.
C25_UnknownTrailingTokenIsNoDay ==
  (/\ out.fn = "parseTokensFromMsg" /\ out.client = "at"
   /\ out.msg # <<>> /\ ~out.r.panic) =>
    LET i == Index(out.msg, s_sp \o s_at)
        arg == TrimSpace(Slice(out.msg, i + 3, Len(out.msg)))
        tokens == Split(arg, s_sp)
        last == tokens[Len(tokens)]
    IN  /\ ~out.r.err
        /\ (i > 0 /\ Len(tokens) >= 2 /\ last \notin {today, tomorrow}) =>
             /\ out.r.loc = TrimSpace(Slice(arg, 0, Len(arg) - Len(last)))
             /\ onDayOf(out.r.at, now) = FormatDate(now)

\* C26: respond meets no slice-bounds panic, neither in stripping the
\* mention nor in parseTokensFromMsg, whatever the mention text: a respond
\* that ends in a panic is a help whose footer could not be formatted, never
\* one that stopped in the parser.
C26_NoSliceBoundsPanic ==
  \A p \in Procs : pc[p] = "panic" => inv[p].cmd = helpCmd

\* C27: when GetTruck fails for a booking, postEvents still emits the
\* booking's detail block, without the rating and the review count, and goes
\* on: every GetTruck call of an invocation has its detail block, in order,
\* rated exactly when the call succeeded, and what follows a GetTruck call is
\* another GetTruck call or the block message, never a failure message.
IsBooking(b) == b.role = "booking"

RECURSIVE BookingsIn(_)
BookingsIn(posts) ==
  IF posts = <<>> THEN <<>>
  ELSE SelectSeq(Head(posts).blocks, IsBooking) \o BookingsIn(Tail(posts))

\* The detail blocks of invocation p so far: those it posted and those of
\* the message it is building.
DetailBlocks(p) ==
  BookingsIn(BlockPosts(p))
    \o (IF pc[p] \in {"GetTruck", "PostMessage"}
        THEN SelectSeq(inv[p].msg, IsBooking) ELSE <<>>)

TruckCalls(p) == SelectSeq(trace, LAMBDA e : e.p = p /\ e.op = "GetTruck")

C27_FailedTruckKeepsDetailBlock ==
  \A p \in Procs :
    /\ Len(DetailBlocks(p)) = Len(TruckCalls(p))
    /\ \A n \in DOMAIN TruckCalls(p) :
         /\ DetailBlocks(p)[n].ref = TruckCalls(p)[n].arg
         /\ DetailBlocks(p)[n].accessory
         /\ DetailBlocks(p)[n].rated = ~TruckCalls(p)[n].err
    /\ \A k \in DOMAIN TraceOf(p) :
         (TraceOf(p)[k].op = "GetTruck" /\ k < Len(TraceOf(p))) =>
           \/ TraceOf(p)[k + 1].op = "GetTruck"
           \/ IsPost(TraceOf(p)[k + 1]) /\ TraceOf(p)[k + 1].text = MsgBlocks

\* A block message whose first booking has no rating, its GetTruck call
\* having failed, and whose second booking has one.
C27_Witness ==
  \E p \in Procs :
    /\ pc[p] = "done"
    /\ Len(TruckCalls(p)) = 2
    /\ TruckCalls(p)[1].err /\ ~TruckCalls(p)[2].err
    /\ Len(BlockPosts(p)) = 1
    /\ Len(DetailBlocks(p)) = 2
    /\ ~DetailBlocks(p)[1].rated /\ DetailBlocks(p)[2].rated

\* C28: the text of a detail block has one line for each food category of
\* the booking, in the order of the categories; each line is the value the
\* table holds under exactly that label, a space and the label, and a label
\* the table does not hold gets no emoji.
RECURSIVE LinesOf(_)
LinesOf(text) ==
  IF text = <<>> THEN <<>>
  ELSE LET ends == {n \in DOMAIN text : text[n] = "\n"}
           n == CHOOSE k \in ends : \A m \in ends : k <= m
       IN  IF ends = {} THEN <<text>>
           ELSE <<SubSeq(text, 1, n - 1)>> \o LinesOf(SubSeq(text, n + 1, Len(text)))

Mapped(fc) == {n \in DOMAIN emojiMapping : emojiMapping[n][1] = fc}

C28_OneLinePerCategoryWithEmoji ==
  out.fn = "categoryText" =>
    LET lines == LinesOf(out.r)
    IN  /\ Len(lines) = Len(out.fcs)
        /\ \A n \in DOMAIN lines :
             /\ Len(lines[n]) = 3
             /\ lines[n][2] = " "
             /\ lines[n][3] = out.fcs[n]
             /\ \A m \in Mapped(out.fcs[n]) : lines[n][1] = emojiMapping[m][2]
             /\ Mapped(out.fcs[n]) = {} => lines[n][1] = ""

\* The categories "Tacos", "Fusion", "bbq": the first with the taco, the
\* other two, which the table does not hold, without an emoji.
C28_Witness ==
  /\ out.fn = "categoryText"
  /\ out.fcs = <<"Tacos", "Fusion", "bbq">>
  /\ out.r = <<":taco:", " ", "Tacos", "\n", "", " ", "Fusion", "\n",
               "", " ", "bbq", "\n">>

\* C29: homeHandler hands a request to respond exactly when it is a POST
\* whose payload is a callback event with an app-mention inner event; any
\* other request (a GET, a URL verification, an unparsable payload, a
\* callback with another inner event) ends in the handler with no chat post
\* and no Domain Client call, the entries of a webhook request being added
\* only by a respond in progress.
IsAppMention(req) ==
  req.method = "post" /\ req.kind = "event_callback" /\ req.inner = "app_mention"

C29_OnlyAppMentionsReachRespond ==
  /\ [](pc["w1"] = "idle" => TraceOf("w1") = <<>>)
  /\ [][/\ \A req \in Requests :
             HomeHandler("w1", req) =>
               /\ trace' = trace
               /\ IF IsAppMention(req) THEN pc'["w1"] = "respond"
                  ELSE pc'["w1"] = "done" /\ inv'["w1"] = idleInv
        /\ pc["w1"] \in {"idle", "done", "panic"} =>
             \A n \in (Len(trace) + 1)..Len(trace') : trace'[n].p # "w1"]_vars

\* A request that was not an app mention has been handled: nothing was
\* posted and nothing was called.
C29_Witness ==
  /\ pc["w1"] = "done"
  /\ inv["w1"] = idleInv
  /\ trace = <<>>
====
